---- MODULE Spec2Model ----
(***************************************************************************)
(* brainz (sav/brainz, main.go): a command that pages through a user's     *)
(* ListenBrainz history, filters it by a pattern or an elapsed-time window *)
(* and optionally deletes the matched listens.                             *)
(*                                                                         *)
(* The program is single threaded.  Its state is the package-level         *)
(* variables of main.go (the flags and cutOffTime), the locals of          *)
(* getAllListens and brainz that live across steps, and what the process   *)
(* has sent and printed so far.                                            *)
(***************************************************************************)
EXTENDS Integers, Sequences, FiniteSets, TLC

(***************************************************************************)
(* Bounds of the model.                                                    *)
(***************************************************************************)
\* Histories of the exclusive-cursor scenario have up to MaxHistLen listens.
MaxHistLen == 3
\* Listen timestamps (unix seconds) range over 0..MaxTs.
MaxTs == 2
\* The remote service answers a list request with at most MaxPageLen listens.
MaxPageLen == 2
\* The -c flag ranges over 0..MaxCountBound.
MaxCountBound == 3
\* Time-filter strings have at most MaxFilterLen characters.
MaxFilterLen == 4
\* Histories of the default-limit scenario have up to MaxUint16 + HistExtra listens.
HistExtra == 1

(***************************************************************************)
(* Program constants.                                                      *)
(***************************************************************************)
\* const MaxUint16 int64 = int64(uint16(1<<16 - 1))
MaxUint16 == 65535
\* const ItemsPerPage = 1000
ItemsPerPage == 1000
\* http.StatusOK
StatusOK == 200

(***************************************************************************)
(* 64-bit integers.  TLC's integers are 32 bits wide, so an int64 is a     *)
(* sequence of NLimbs limbs of 15 bits (digits in base Limb), least        *)
(* significant first; the top limb of a 64-bit pattern keeps bits 60..63.  *)
(***************************************************************************)
Limb == 32768
NLimbs == 5
TopLimb == 16
Limbs == 1..NLimbs

\* n in 0 .. 2^31-1 as limbs.
BigFromNat(n) ==
    <<n % Limb, (n \div Limb) % Limb, n \div (Limb * Limb), 0, 0>>

BigZero == BigFromNat(0)

RECURSIVE MulFrom(_, _, _, _)
MulFrom(x, k, i, carry) ==
    IF i > NLimbs THEN <<>>
    ELSE LET p == x[i] * k + carry
         IN  <<p % Limb>> \o MulFrom(x, k, i + 1, p \div Limb)

\* x * k for 0 <= k < Limb; bits above the limbs are dropped.
BigMulSmall(x, k) == MulFrom(x, k, 1, 0)

RECURSIVE AddFrom(_, _, _, _)
AddFrom(x, y, i, carry) ==
    IF i > NLimbs THEN <<>>
    ELSE LET s == x[i] + y[i] + carry
         IN  <<s % Limb>> \o AddFrom(x, y, i + 1, s \div Limb)

BigAdd(x, y) == AddFrom(x, y, 1, 0)

RECURSIVE SubFrom(_, _, _, _)
SubFrom(x, y, i, borrow) ==
    IF i > NLimbs THEN <<>>
    ELSE LET s == x[i] - y[i] - borrow
         IN  IF s < 0 THEN <<s + Limb>> \o SubFrom(x, y, i + 1, 1)
                      ELSE <<s>> \o SubFrom(x, y, i + 1, 0)

\* x - y for x >= y.
BigSub(x, y) == SubFrom(x, y, 1, 0)

RECURSIVE LessFrom(_, _, _)
LessFrom(x, y, i) ==
    IF i = 0 THEN FALSE
    ELSE IF x[i] # y[i] THEN x[i] < y[i]
    ELSE LessFrom(x, y, i - 1)

BigLess(x, y) == LessFrom(x, y, NLimbs)

RECURSIVE DivFrom(_, _, _, _)
\* Long division of the limbs i..1 of x by k (0 < k < Limb), remainder r carried in.
DivFrom(x, k, i, r) ==
    IF i = 0 THEN [q |-> <<>>, r |-> r]
    ELSE LET cur  == r * Limb + x[i]
             rest == DivFrom(x, k, i - 1, cur % k)
         IN  [q |-> rest.q \o <<cur \div k>>, r |-> rest.r]

BigDivSmall(x, k) == DivFrom(x, k, NLimbs, 0)

\* The low 64 bits of x: what an int64 keeps of a result.
Wrap64(x) == [x EXCEPT ![NLimbs] = x[NLimbs] % TopLimb]

\* A 64-bit pattern is negative when bit 63 is set.
IsNeg64(x) == x[NLimbs] >= TopLimb \div 2

\* Two's complement negation of a 64-bit pattern.
Neg64(x) ==
    LET inv == [i \in Limbs |-> IF i = NLimbs THEN (TopLimb - 1) - x[i]
                                               ELSE (Limb - 1) - x[i]]
    IN  Wrap64(BigAdd(inv, BigFromNat(1)))

(***************************************************************************)
(* Signed values [neg, mag]: the mathematical integers the claims speak    *)
(* of.  Zero is [neg |-> FALSE, mag |-> BigZero].                          *)
(***************************************************************************)
SMake(neg, mag) == [neg |-> neg /\ mag # BigZero, mag |-> mag]

SFromInt(n) == IF n < 0 THEN SMake(TRUE, BigFromNat(0 - n)) ELSE SMake(FALSE, BigFromNat(n))

\* The value of a 64-bit pattern read as an int64.
SFrom64(x) == IF IsNeg64(x) THEN SMake(TRUE, Neg64(x)) ELSE SMake(FALSE, x)

SNeg(a) == SMake(~a.neg, a.mag)

SAdd(a, b) ==
    IF a.neg = b.neg THEN SMake(a.neg, BigAdd(a.mag, b.mag))
    ELSE IF BigLess(a.mag, b.mag) THEN SMake(b.neg, BigSub(b.mag, a.mag))
    ELSE SMake(a.neg, BigSub(a.mag, b.mag))

SLess(a, b) ==
    IF a.neg # b.neg THEN a.neg
    ELSE IF a.neg THEN BigLess(b.mag, a.mag)
    ELSE BigLess(a.mag, b.mag)

SZero == SFromInt(0)

\* A signed value of magnitude below 2^30 as a TLC integer.
SToInt(a) ==
    LET m == a.mag[1] + a.mag[2] * Limb
    IN  IF a.neg THEN 0 - m ELSE m

(***************************************************************************)
(* Strings are sequences of one-character strings.                         *)
(***************************************************************************)
DecimalDigits == {"0", "1", "2", "3", "4", "5", "6", "7", "8", "9"}

DigitVal(c) ==
    CASE c = "0" -> 0 [] c = "1" -> 1 [] c = "2" -> 2 [] c = "3" -> 3 [] c = "4" -> 4
      [] c = "5" -> 5 [] c = "6" -> 6 [] c = "7" -> 7 [] c = "8" -> 8 [] c = "9" -> 9

\* The characters time-filter strings are drawn from.
FilterChars == {"0", "3", "5", "+", "-", " ", "x", "m", "h", "d", "y"}

RECURSIVE StringsUpTo(_, _)
StringsUpTo(chars, n) ==
    IF n = 0 THEN {<<>>}
    ELSE LET shorter == StringsUpTo(chars, n - 1)
         IN  shorter \cup {Append(s, c) : s \in shorter, c \in chars}

(***************************************************************************)
(* fmt.Sscanf(nVal, "%d", &amount): skip leading spaces, accept one sign,  *)
(* require a digit, take the digits that follow and stop there.  What      *)
(* follows the digits is left unread and is no error.  Amounts stay below  *)
(* 2^31 within MaxFilterLen, so strconv.ParseInt reports no range error.   *)
(***************************************************************************)
RECURSIVE SkipSpace(_, _)
SkipSpace(s, i) ==
    IF i <= Len(s) /\ s[i] = " " THEN SkipSpace(s, i + 1) ELSE i

RECURSIVE ScanNumber(_, _)
ScanNumber(s, i) ==
    IF i <= Len(s) /\ s[i] \in DecimalDigits THEN ScanNumber(s, i + 1) ELSE i

RECURSIVE ParseInt(_, _, _, _)
ParseInt(s, i, j, acc) ==
    IF i > j THEN acc ELSE ParseInt(s, i + 1, j, acc * 10 + DigitVal(s[i]))

Sscanf(s) ==
    LET i == SkipSpace(s, 1)
    IN  IF i > Len(s) THEN [err |-> TRUE, amount |-> 0]
        ELSE LET j == IF s[i] \in {"+", "-"} THEN i + 1 ELSE i
                 k == ScanNumber(s, j)
                 v == ParseInt(s, j, k - 1, 0)
             IN  IF k = j THEN [err |-> TRUE, amount |-> 0]
                 ELSE [err |-> FALSE, amount |-> IF s[i] = "-" THEN 0 - v ELSE v]

(***************************************************************************)
(* time.Duration is an int64 count of nanoseconds; products wrap.          *)
(***************************************************************************)
\* x * time.Second
MulSecond(x) == BigMulSmall(BigMulSmall(BigMulSmall(x, 1000), 1000), 1000)

\* x * time.Minute
MulMinute(x) == Wrap64(MulSecond(BigMulSmall(x, 60)))

\* x * time.Hour
MulHour(x) == Wrap64(MulSecond(BigMulSmall(x, 3600)))

\* The switch of parseTimeFilter: the duration of amount units, as a 64-bit pattern.
Duration(amount, unit) ==
    LET a == BigFromNat(amount)
    IN  CASE unit = "m" -> MulMinute(a)
          [] unit = "h" -> MulHour(a)
          [] unit = "d" -> MulHour(Wrap64(BigMulSmall(a, 24)))
          [] unit = "y" -> MulHour(Wrap64(BigMulSmall(Wrap64(BigMulSmall(a, 365)), 24)))

Units == {"m", "h", "d", "y"}

\* Nanoseconds in a second, the bound of a Time's nsec field.
NanosPerSec == 1000000000

\* time.Time.Add(d) for a 64-bit pattern d; t is [sec, nsec] with sec signed.
TimeAdd(t, d) ==
    LET sd   == SFrom64(d)
        q1   == BigDivSmall(sd.mag, 1000)
        q2   == BigDivSmall(q1.q, 1000)
        q3   == BigDivSmall(q2.q, 1000)
        rem  == q1.r + 1000 * q2.r + 1000000 * q3.r
        dsec == SMake(sd.neg, q3.q)
        nsec == t.nsec + (IF sd.neg THEN 0 - rem ELSE rem)
        adj  == IF nsec >= NanosPerSec THEN 1 ELSE IF nsec < 0 THEN 0 - 1 ELSE 0
    IN  [sec  |-> SAdd(SAdd(t.sec, dsec), SFromInt(adj)),
         nsec |-> nsec - adj * NanosPerSec]

\* parseTimeFilter(input) read at time clock = [sec, nsec]: [err, cutoff].
parseTimeFilter(input, clock) ==
    IF input = <<>> THEN [err |-> FALSE, cutoff |-> SZero]
    ELSE IF Len(input) < 2 THEN [err |-> TRUE, cutoff |-> SZero]
    ELSE LET nVal == SubSeq(input, 1, Len(input) - 1)
             unit == input[Len(input)]
             scan == Sscanf(nVal)
         IN  IF scan.err \/ scan.amount <= 0 THEN [err |-> TRUE, cutoff |-> SZero]
             ELSE IF unit \notin Units THEN [err |-> TRUE, cutoff |-> SZero]
             ELSE LET duration == Duration(scan.amount, unit)
                      t        == [sec |-> SFromInt(clock.sec), nsec |-> clock.nsec]
                  IN  [err |-> FALSE, cutoff |-> TimeAdd(t, Neg64(duration)).sec]

(***************************************************************************)
(* The data model.                                                         *)
(***************************************************************************)
Tracks == {[Name |-> "Time", Artist |-> "Pink Floyd"], [Name |-> "Jazz", Artist |-> "Queen"]}

\* The recording_msid the service assigns to a track.
Msid(track) == IF track.Artist = "Pink Floyd" THEN "msid-1" ELSE "msid-2"

MakeListen(track, ts) == [Recording |-> Msid(track), Track |-> track, ListenedAt |-> ts]

\* The search patterns of the model: the default, a word and one that does not compile.
Patterns == {".+", "floyd", "("}

\* regexp.MatchString("(?i)" + pattern, listen.String()) fails on a bad pattern.
MatchError(pattern) == pattern = "("

\* The rendered listen is "[<time>] <artist> - \"<name>\"": never empty, and of
\* the tracks above only Pink Floyd's contains "floyd" once case is ignored.
MatchString(pattern, listen) ==
    CASE pattern = ".+"    -> TRUE
      [] pattern = "floyd" -> listen.Track.Artist = "Pink Floyd"
      [] OTHER             -> FALSE

(***************************************************************************)
(* State.                                                                  *)
(***************************************************************************)
VARIABLES
    \* the flags of main.go, as flag.Parse() leaves them
    maxCount, deleteListens, userName, searchPattern, showUsage, timeFilter,
    \* the environment: LISTENBRAINZ_TOKEN, the clock read by time.Now(), and
    \* what the remote service answers list requests with
    token, clock, remote,
    \* set by main from timeFilter
    cutOffTime,
    \* where the process is: "main", "getAllListens", "brainz", "exit"
    pc,
    \* the process's exit status once pc = "exit"
    exitCode,
    \* getAllListens: the cursor, the result so far and int64(len(listens))
    timestamp, listens, count,
    \* why getAllListens returned: "empty", "cutoff" or "limit"
    stop,
    \* brainz: the index of the next listen of the range loop
    next,
    \* the list requests sent, the fetches that failed among them, and the
    \* listens served by the successful ones, in order
    requests, failed, served,
    \* the delete requests sent: the listen's index and the outcome
    deletes,
    \* output: the indices of the listens printed, of the listens warned
    \* about, whether the help text was printed, and the error reported
    printed, warnings, help, errmsg

flagVars == <<maxCount, deleteListens, userName, searchPattern, showUsage, timeFilter>>
envVars == <<token, clock, remote>>
driverVars == <<timestamp, listens, count, stop, requests, failed, served>>
brainzVars == <<next, deletes, printed, warnings>>
vars == <<flagVars, envVars, cutOffTime, pc, exitCode, driverVars, brainzVars, help, errmsg>>

\* The state of a process that has parsed its flags and done nothing yet.
Started ==
    /\ cutOffTime = SZero
    /\ pc = "main"
    /\ exitCode = 0
    /\ timestamp = 0
    /\ listens = <<>>
    /\ count = 0
    /\ stop = ""
    /\ next = 1
    /\ requests = <<>>
    /\ failed = 0
    /\ served = <<>>
    /\ deletes = <<>>
    /\ printed = <<>>
    /\ warnings = <<>>
    /\ help = FALSE
    /\ errmsg = ""

(***************************************************************************)
(* main: the checks before brainz() is called.  usage() prints the help    *)
(* text and exits with status 2.                                           *)
(***************************************************************************)
Exit(code, msg, usage) ==
    /\ pc' = "exit"
    /\ exitCode' = code
    /\ errmsg' = msg
    /\ help' = usage

\* MissingToken without the check of the environment.
MissingTokenUnchecked(tok) == FALSE

\* os.Getenv("LISTENBRAINZ_TOKEN") == ""
MissingToken(tok) == tok = ""

Main ==
    /\ pc = "main"
    /\ LET parsed == parseTimeFilter(timeFilter, clock)
       IN  IF showUsage THEN Exit(2, "", TRUE) /\ UNCHANGED cutOffTime
           ELSE IF MissingToken(token) THEN
                Exit(1, "Error: please define LISTENBRAINZ_TOKEN.", FALSE)
                /\ UNCHANGED cutOffTime
           ELSE IF userName = "" THEN
                Exit(2, "Error: username is missing.", TRUE) /\ UNCHANGED cutOffTime
           ELSE IF maxCount < 1 THEN
                Exit(2, "Error: invalid maxCount", TRUE) /\ UNCHANGED cutOffTime
           ELSE IF parsed.err THEN
                Exit(2, "Error: invalid time filter", TRUE) /\ cutOffTime' = parsed.cutoff
           ELSE /\ cutOffTime' = parsed.cutoff
                /\ pc' = "getAllListens"
                /\ UNCHANGED <<exitCode, errmsg, help>>
    /\ UNCHANGED <<flagVars, envVars, driverVars, brainzVars>>

(***************************************************************************)
(* The time-filter parser on its own: main run on every time-filter string *)
(* of up to MaxFilterLen characters, at a present-day clock.               *)
(***************************************************************************)
\* 2023-11-14T22:13:20Z
ParseClockSec == 1700000000

InitParse ==
    /\ maxCount = MaxUint16
    /\ deleteListens = FALSE
    /\ userName = "sav10sena"
    /\ searchPattern = ".+"
    /\ showUsage = FALSE
    /\ timeFilter \in StringsUpTo(FilterChars, MaxFilterLen)
    /\ token = "token"
    /\ clock \in {[sec |-> ParseClockSec, nsec |-> n] : n \in {0, NanosPerSec - 1}}
    /\ remote = [kind |-> "none"]
    /\ Started

SpecParse == InitParse /\ [][Main]_vars

(***************************************************************************)
(* The remote service.  A list request is answered with a page, or fails   *)
(* (it cannot be sent, its body cannot be read or decoded).  remote says   *)
(* what the service may answer:                                            *)
(*   [kind |-> "any", catalog |-> S]: any page of at most MaxPageLen       *)
(*       listens of S, in any order, or a failure;                         *)
(*   [kind |-> "ordered", catalog |-> S]: a page of at most MaxPageLen     *)
(*       listens of S, most recent first and all older than max_ts when    *)
(*       max_ts is sent, or a failure;                                     *)
(*   [kind |-> "history", size |-> n]: the ItemsPerPage most recent        *)
(*       listens older than max_ts of a history of n listens, one per      *)
(*       second from second 1 on;                                          *)
(*   [kind |-> "exclusive", history |-> h, pageSize |-> p]: the p most     *)
(*       recent listens of h older than max_ts.                            *)
(***************************************************************************)
Min(a, b) == IF a < b THEN a ELSE b

RECURSIVE SeqsUpTo(_, _)
SeqsUpTo(S, n) ==
    IF n = 0 THEN {<<>>}
    ELSE LET shorter == SeqsUpTo(S, n - 1)
         IN  shorter \cup {Append(q, x) : q \in shorter, x \in S}

FetchError == [ok |-> FALSE, listens |-> <<>>]

Page(ls) == [ok |-> TRUE, listens |-> ls]

\* GET .../listens?count=ItemsPerPage[&max_ts=max]: max_ts is sent when max > 0.
Request(max) == [hasMaxTs |-> max > 0, max_ts |-> IF max > 0 THEN max ELSE 0]

\* The user's history holds one listen per second.
TrackAt(ts) ==
    IF ts % 2 = 1 THEN [Name |-> "Time", Artist |-> "Pink Floyd"]
    ELSE [Name |-> "Jazz", Artist |-> "Queen"]

ListenAt(ts) == MakeListen(TrackAt(ts), ts)

\* n listens, one per second from second 1 on, most recent first.
History(n) == [i \in 1..n |-> ListenAt(n + 1 - i)]

Serve(history, req) ==
    LET older == IF req.hasMaxTs
                 THEN SelectSeq(history, LAMBDA l : l.ListenedAt < req.max_ts)
                 ELSE history
    IN  SubSeq(older, 1, IF Len(older) < ItemsPerPage THEN Len(older) ELSE ItemsPerPage)

\* Most recent first, no listen twice.
Descending(ls) ==
    \A i \in 1..Len(ls) - 1 : ls[i].ListenedAt > ls[i + 1].ListenedAt

OlderThan(ls, req) ==
    req.hasMaxTs => \A i \in 1..Len(ls) : ls[i].ListenedAt < req.max_ts

\* The n most recent listens of history older than max_ts, or the n most
\* recent ones when no max_ts is sent: a service whose own page limit n is
\* below the count asked for.
ServeOlder(history, req, n) ==
    LET older == IF req.hasMaxTs
                 THEN SelectSeq(history, LAMBDA l : l.ListenedAt < req.max_ts)
                 ELSE history
    IN  SubSeq(older, 1, Min(Len(older), Min(n, ItemsPerPage)))

Responses(req) ==
    CASE remote.kind = "history" -> {Page(Serve(History(remote.size), req))}
      [] remote.kind = "exclusive" ->
            {Page(ServeOlder(remote.history, req, remote.pageSize))}
      [] remote.kind = "ordered" ->
            {FetchError} \cup
            {Page(ls) : ls \in {q \in SeqsUpTo(remote.catalog, MaxPageLen) :
                                    Descending(q) /\ OlderThan(q, req)}}
      [] OTHER ->
            {FetchError} \cup {Page(ls) : ls \in SeqsUpTo(remote.catalog, MaxPageLen)}

(***************************************************************************)
(* getListens and getAllListens.                                           *)
(***************************************************************************)
\* getListens returns the decoded page, and an empty Listens{} on any failure.
getListens(resp) == IF resp.ok THEN resp.listens ELSE <<>>

length(page) == Len(page)

\* Exhausted without the check of the page's length.
ExhaustedUnchecked(page) == FALSE

\* page.length() == 0: the loop of getAllListens breaks.
Exhausted(page) == length(page) = 0

\* OlderThanCutoff with <= for <.
OlderOrEqualCutoff(listen, cutoff) ==
    SLess(SZero, cutoff) /\ ~SLess(cutoff, SFromInt(listen.ListenedAt))

\* cutOffTime > 0 && listen.ListenedAt < cutOffTime
OlderThanCutoff(listen, cutoff) ==
    SLess(SZero, cutoff) /\ SLess(SFromInt(listen.ListenedAt), cutoff)

\* LimitReached with > for >=.
LimitReachedAfter(n, max) == n > max

\* int64(len(listens)) >= maxCount
LimitReached(n, max) == n >= max

lastTimestamp(page) == page[Len(page)].ListenedAt

\* rangeBody without the test of the count limit.
rangeBodyUnlimited(n, listen, cutoff, max) ==
    IF OlderThanCutoff(listen, cutoff) THEN [take |-> <<>>, stop |-> "cutoff"]
    ELSE [take |-> <<listen>>, stop |-> ""]

\* The body of the range loop of getAllListens for one listen, the result
\* holding n listens before it: the listen appended, if any, and the return
\* statement reached ("" when the loop goes on).
rangeBody(n, listen, cutoff, max) ==
    IF OlderThanCutoff(listen, cutoff) THEN [take |-> <<>>, stop |-> "cutoff"]
    ELSE IF LimitReached(n + 1, max) THEN [take |-> <<listen>>, stop |-> "limit"]
    ELSE [take |-> <<listen>>, stop |-> ""]

RECURSIVE rangePage(_, _, _, _, _, _)
\* The range loop over page[lo..hi], the result holding n listens before it: the
\* loop over the first half and, unless that returned, the loop over the second
\* (halved so that a page of ItemsPerPage listens is within TLC's stack).
rangePage(n, page, lo, hi, cutoff, max) ==
    IF lo > hi THEN [take |-> <<>>, stop |-> ""]
    ELSE IF lo = hi THEN rangeBody(n, page[lo], cutoff, max)
    ELSE LET mid   == (lo + hi) \div 2
             first == rangePage(n, page, lo, mid, cutoff, max)
             rest  == rangePage(n + Len(first.take), page, mid + 1, hi, cutoff, max)
         IN  IF first.stop # "" THEN first
             ELSE [take |-> first.take \o rest.take, stop |-> rest.stop]

\* What follows getAllListens: the range loop of brainz.
Return(reason) ==
    /\ stop' = reason
    /\ pc' = "brainz"
    /\ UNCHANGED <<exitCode, errmsg, help>>

\* A run-time panic: the process dies with status 2.
Panic(msg) == Exit(2, msg, FALSE)

\* One iteration of the loop of getAllListens on the page fetched, the result
\* holding n listens and the cursor being ts: the cursor after it, the listens
\* appended, the return statement reached ("" when the loop goes on), and
\* whether lastTimestamp indexed an empty page.
Iteration(n, ts, page, cutoff, max) ==
    IF Exhausted(page) THEN
        [panic |-> FALSE, timestamp |-> ts, take |-> <<>>, stop |-> "empty"]
    ELSE IF Len(page) = 0 THEN
        [panic |-> TRUE, timestamp |-> ts, take |-> <<>>, stop |-> ""]
    ELSE LET rest == rangePage(n, page, 1, Len(page), cutoff, max)
         IN  [panic |-> FALSE, timestamp |-> lastTimestamp(page),
              take |-> rest.take, stop |-> rest.stop]

\* Continue with the return statements of the range loop leaving that loop only:
\* the next page is fetched all the same.
ContinueFetching(it) ==
    /\ timestamp' = it.timestamp
    /\ IF it.panic THEN Panic("panic: index out of range") /\ UNCHANGED stop
       ELSE IF it.stop = "empty" THEN Return(it.stop)
       ELSE UNCHANGED <<stop, pc, exitCode, errmsg, help>>

\* Where an iteration leaves the process.
Continue(it) ==
    /\ timestamp' = it.timestamp
    /\ IF it.panic THEN Panic("panic: index out of range") /\ UNCHANGED stop
       ELSE IF it.stop # "" THEN Return(it.stop)
       ELSE UNCHANGED <<stop, pc, exitCode, errmsg, help>>

\* One iteration of the loop of getAllListens: a fetch and the range over its page.
GetAllListens ==
    /\ pc = "getAllListens"
    /\ remote.kind # "history"
    /\ \E resp \in Responses(Request(timestamp)) :
         LET it == Iteration(Len(listens), timestamp, getListens(resp),
                             cutOffTime, maxCount)
         IN  /\ requests' = Append(requests, Request(timestamp))
             /\ failed' = IF resp.ok THEN failed ELSE failed + 1
             /\ served' = served \o resp.listens
             /\ listens' = listens \o it.take
             /\ count' = count + Len(it.take)
             /\ Continue(it)
    /\ UNCHANGED <<flagVars, envVars, cutOffTime, brainzVars>>

\* The same iteration against a long history, the state keeping of the result
\* (and of what was served) only count = int64(len(listens)): the listens of a
\* history are determined by its size, and 65535 of them are too many to carry.
GetAllListensCount ==
    /\ pc = "getAllListens"
    /\ remote.kind = "history"
    /\ \E resp \in Responses(Request(timestamp)) :
         LET it == Iteration(count, timestamp, getListens(resp), cutOffTime, maxCount)
         IN  /\ requests' = Append(requests, Request(timestamp))
             /\ failed' = IF resp.ok THEN failed ELSE failed + 1
             /\ count' = count + Len(it.take)
             /\ Continue(it)
    /\ UNCHANGED <<flagVars, envVars, cutOffTime, brainzVars, listens, served>>

(***************************************************************************)
(* deleteListen and brainz.                                                *)
(***************************************************************************)
\* What a delete request may meet: a response with a status, or a transport error.
Statuses == {StatusOK, 204, 404}

TransportError == [sent |-> FALSE, status |-> 0]

DeleteResponses == {TransportError} \cup {[sent |-> TRUE, status |-> c] : c \in Statuses}

\* No request is made.
NoRequest == [sent |-> FALSE, status |-> 0 - 1]

\* deleteListen taking every 2xx status for a success.
deleteListenAny2xx(resp) == resp.status \div 100 = 2

\* deleteListen returns resp.StatusCode == http.StatusOK; client.Do failing panics.
deleteListen(resp) == resp.status = StatusOK

\* Deletes without the flag.
DeletesEveryMatch(match, flag) == match

\* deleteListens && !deleteListen(listen): the call is made when the flag is set.
Deletes(match, flag) == match /\ flag

\* One iteration of the range loop of brainz.
Brainz ==
    /\ pc = "brainz"
    /\ next <= Len(listens)
    /\ LET listen == listens[next]
           match  == /\ ~OlderThanCutoff(listen, cutOffTime)
                     /\ ~MatchError(searchPattern)
                     /\ MatchString(searchPattern, listen)
           call   == Deletes(match, deleteListens)
       IN  \E resp \in IF call THEN DeleteResponses ELSE {NoRequest} :
             IF OlderThanCutoff(listen, cutOffTime) THEN
                 /\ next' = next + 1
                 /\ UNCHANGED <<pc, exitCode, errmsg, help, deletes, printed, warnings>>
             ELSE IF MatchError(searchPattern) THEN
                 /\ Exit(1, "Error: error parsing regexp", FALSE)
                 /\ UNCHANGED brainzVars
             ELSE IF ~match THEN
                 /\ next' = next + 1
                 /\ UNCHANGED <<pc, exitCode, errmsg, help, deletes, printed, warnings>>
             ELSE /\ printed' = Append(printed, next)
                  /\ IF ~call THEN
                         /\ next' = next + 1
                         /\ UNCHANGED <<pc, exitCode, errmsg, help, deletes, warnings>>
                     ELSE /\ deletes' = Append(deletes, [index |-> next, resp |-> resp])
                          /\ IF ~resp.sent THEN
                                 Panic("panic: transport error") /\ UNCHANGED <<next, warnings>>
                             ELSE /\ next' = next + 1
                                  /\ warnings' = IF deleteListen(resp) THEN warnings
                                                 ELSE Append(warnings, next)
                                  /\ UNCHANGED <<pc, exitCode, errmsg, help>>
    /\ UNCHANGED <<flagVars, envVars, cutOffTime, driverVars>>

\* brainz returns, and main with it: the process exits with status 0.
Done ==
    /\ pc = "brainz"
    /\ next > Len(listens)
    /\ Exit(0, "", FALSE)
    /\ UNCHANGED <<flagVars, envVars, cutOffTime, driverVars, brainzVars>>

(***************************************************************************)
(* The whole program, against a service that answers in order or fails.    *)
(***************************************************************************)
Timestamps == 0..MaxTs

Catalog == {ListenAt(ts) : ts \in Timestamps}

\* The clocks of the bounded runs: one minute before them lies in 1..MaxTs.
Clocks == {[sec |-> 60 + c, nsec |-> 0] : c \in 1..MaxTs}

\* -t: none, one minute, one hour (before 1970 on these clocks), and a bad one.
TimeFilters == {<<>>, <<"1", "m">>, <<"1", "h">>, <<"m">>}

Init ==
    /\ maxCount \in 0..MaxCountBound
    /\ deleteListens \in BOOLEAN
    /\ userName \in {"", "sav10sena"}
    /\ searchPattern \in Patterns
    /\ showUsage \in BOOLEAN
    /\ timeFilter \in TimeFilters
    /\ token \in {"", "token"}
    /\ clock \in Clocks
    /\ remote = [kind |-> "ordered", catalog |-> Catalog]
    /\ Started

Next == Main \/ GetAllListens \/ Brainz \/ Done

Spec == Init /\ [][Next]_vars

(***************************************************************************)
(* The pagination driver on its own, against a service that may answer a   *)
(* list request with any page: main with valid flags, then getAllListens.  *)
(***************************************************************************)
InitDriver ==
    /\ maxCount \in 1..MaxCountBound
    /\ deleteListens = FALSE
    /\ userName = "sav10sena"
    /\ searchPattern = ".+"
    /\ showUsage = FALSE
    /\ timeFilter \in TimeFilters \ {<<"m">>}
    /\ token = "token"
    /\ clock \in Clocks
    /\ remote = [kind |-> "any", catalog |-> Catalog]
    /\ Started

NextDriver == Main \/ GetAllListens

SpecDriver == InitDriver /\ [][NextDriver]_vars

\* The process is single threaded and every list request returns, answered or
\* failed: an iteration of getAllListens that is possible is taken.
SpecDriverFair == SpecDriver /\ WF_vars(GetAllListens)

(***************************************************************************)
(* The pagination driver with the default count limit (no -c, no -t),      *)
(* against a service holding a long history.                               *)
(***************************************************************************)
InitDefault ==
    /\ maxCount = MaxUint16
    /\ deleteListens = FALSE
    /\ userName = "sav10sena"
    /\ searchPattern = ".+"
    /\ showUsage = FALSE
    /\ timeFilter = <<>>
    /\ token = "token"
    /\ clock = [sec |-> ParseClockSec, nsec |-> 0]
    /\ \E n \in (MaxUint16 - 1)..(MaxUint16 + HistExtra) :
         remote = [kind |-> "history", size |-> n]
    /\ Started

NextDefault == Main \/ GetAllListensCount

SpecDefault == InitDefault /\ [][NextDefault]_vars

(***************************************************************************)
(* The pagination driver with no cutoff and a count limit of at least the  *)
(* history's length, against a service that answers with its most recent   *)
(* listens older than max_ts.  The history's timestamps are positive and   *)
(* never increase from the most recent listen to the oldest; two listens   *)
(* of different tracks may share a timestamp.                              *)
(***************************************************************************)
Records == {MakeListen(t, ts) : t \in Tracks, ts \in 1..MaxTs}

NonIncreasing(ls) ==
    \A i \in 1..Len(ls) - 1 : ls[i].ListenedAt >= ls[i + 1].ListenedAt

NoRepeat(ls) == \A i, j \in 1..Len(ls) : ls[i] = ls[j] => i = j

Histories == {h \in SeqsUpTo(Records, MaxHistLen) : NonIncreasing(h) /\ NoRepeat(h)}

InitExclusive ==
    /\ deleteListens = FALSE
    /\ userName = "sav10sena"
    /\ searchPattern = ".+"
    /\ showUsage = FALSE
    /\ timeFilter = <<>>
    /\ token = "token"
    /\ clock \in Clocks
    /\ \E h \in Histories, p \in 1..MaxPageLen :
         /\ remote = [kind |-> "exclusive", history |-> h, pageSize |-> p]
         /\ maxCount \in {n \in Len(h)..MaxHistLen + 1 : n >= 1}
    /\ Started

NextExclusive == Main \/ GetAllListens

SpecExclusive == InitExclusive /\ [][NextExclusive]_vars

(***************************************************************************)
(* Properties.                                                             *)
(***************************************************************************)
\* cutOffTime as an integer (its magnitude is small on the clocks of Clocks).
Cutoff == SToInt(cutOffTime)

IsPrefix(a, b) == Len(a) <= Len(b) /\ a = SubSeq(b, 1, Len(a))

\* The index of the first listen of ls older than c, Len(ls) + 1 when there is none.
FirstOlder(ls, c) ==
    LET old == {i \in 1..Len(ls) : ls[i].ListenedAt < c}
    IN  IF old = {} THEN Len(ls) + 1 ELSE CHOOSE i \in old : \A j \in old : i <= j

Indices(q) == {q[k] : k \in 1..Len(q)}

DeleteIndices == {deletes[k].index : k \in 1..Len(deletes)}

\* C1: if a page fetch fails, the operation is aborted: no listen is printed or
\* deleted in that run, and the run ends as a fatal error, not with status 0.
C1_FetchFailureAborts ==
    failed > 0 =>
        /\ printed = <<>>
        /\ deletes = <<>>
        /\ pc = "exit" => exitCode # 0

\* C2: getAllListens never holds more than maxCount listens, and holds exactly
\* maxCount when it returns because of the limit.
C2_AtMostMaxCount ==
    /\ Len(listens) <= maxCount
    /\ stop = "limit" => Len(listens) = maxCount

\* The limit is reached inside a page: more listens were served than returned.
C2_Witness ==
    /\ stop = "limit"
    /\ Len(requests) >= 2
    /\ Len(served) > Len(listens)

\* C3: served pages of strictly decreasing timestamps: the result is a prefix of
\* the listens served; it holds no listen older than the cutoff; once returned
\* it is the listens before the first one older than the cutoff (none is older
\* when cutOffTime is not positive), up to maxCount; a listen at the cutoff stays.
C3_PrefixUpToCutoff ==
    Descending(served) =>
        LET older == IF Cutoff > 0 THEN FirstOlder(served, Cutoff) ELSE Len(served) + 1
        IN  /\ IsPrefix(listens, served)
            /\ \A i \in 1..Len(listens) : Cutoff > 0 => listens[i].ListenedAt >= Cutoff
            /\ stop = "cutoff" => listens = SubSeq(served, 1, older - 1)
            /\ stop # "" => listens = SubSeq(served, 1, Min(older - 1, maxCount))

\* The cutoff is met in the second page, after a listen at the cutoff was kept.
C3_Witness ==
    /\ Descending(served)
    /\ stop = "cutoff"
    /\ Len(requests) >= 2
    /\ listens # <<>>
    /\ listens[Len(listens)].ListenedAt = Cutoff
    /\ Len(served) > Len(listens)

\* C4: a fetch answered with a page of zero listens ends getAllListens without
\* error: it returns what the earlier pages gave, nothing when it is the
\* first page, and the process neither panics nor reports an error.
C4_EmptyPageStops ==
    [][(/\ pc = "getAllListens"
        /\ Len(requests') = Len(requests) + 1
        /\ failed' = failed
        /\ served' = served)
       => (/\ pc' = "brainz"
           /\ stop' = "empty"
           /\ listens' = listens
           /\ listens' = served'
           /\ exitCode' = 0
           /\ errmsg' = "")]_vars

\* An empty page after a page of listens, no fetch having failed.
C4_Witness ==
    /\ stop = "empty"
    /\ failed = 0
    /\ Len(requests) >= 2
    /\ listens # <<>>
    /\ listens = served

\* C5: a delete request is sent only with the delete flag set and only for a
\* listen that getAllListens returned, that matches the pattern and that was
\* printed; no listen has two delete requests.
C5_DeleteOnlyMatched ==
    /\ ~deleteListens => deletes = <<>>
    /\ \A k \in 1..Len(deletes) :
         LET i == deletes[k].index
         IN  /\ stop # ""
             /\ i \in 1..Len(listens)
             /\ ~MatchError(searchPattern)
             /\ MatchString(searchPattern, listens[i])
             /\ i \in Indices(printed)
    /\ \A k, m \in 1..Len(deletes) : deletes[k].index = deletes[m].index => k = m

\* A finished run in delete mode that deleted some listens and left one unmatched.
C5_Witness ==
    /\ pc = "exit"
    /\ exitCode = 0
    /\ deleteListens
    /\ Len(deletes) >= 1
    /\ Len(listens) > Len(printed)

\* C6: a delete answered with a status is a success only when the status is 200:
\* any other status gets the listen printed and warned about; the run goes on,
\* so that a run whose deletes were all answered ends with status 0 after having
\* printed and submitted every matching listen, and a run that dies after a
\* delete did not die of an answered one.
C6_Non200IsWarned ==
    /\ \A k \in 1..Len(deletes) :
         deletes[k].resp.sent =>
            /\ deletes[k].index \in Indices(printed)
            /\ deletes[k].index \in Indices(warnings) <=> deletes[k].resp.status # 200
    /\ (pc = "exit" /\ exitCode # 0 /\ deletes # <<>>) => ~deletes[Len(deletes)].resp.sent
    /\ (pc = "exit" /\ deletes # <<>> /\ \A k \in 1..Len(deletes) : deletes[k].resp.sent) =>
            /\ exitCode = 0
            /\ \A i \in 1..Len(listens) :
                 MatchString(searchPattern, listens[i]) =>
                    i \in Indices(printed) /\ i \in DeleteIndices

\* A finished run: a delete answered 404, warned about, and a later delete sent.
C6_Witness ==
    /\ pc = "exit"
    /\ exitCode = 0
    /\ \E k \in 1..Len(deletes) :
         /\ deletes[k].resp.sent
         /\ deletes[k].resp.status = 404
         /\ deletes[k].index \in Indices(warnings)
         /\ k < Len(deletes)
         /\ deletes[k + 1].resp.sent

\* C7: a transport error of a delete is not fatal: the listen is warned about
\* and the run goes on to the next listen, never ending with a failure status.
C7_TransportErrorIsWarned ==
    \A k \in 1..Len(deletes) :
        ~deletes[k].resp.sent =>
            /\ deletes[k].index \in Indices(warnings)
            /\ next > deletes[k].index
            /\ pc = "exit" => exitCode = 0

\* C8: with the default count limit and no cutoff, getAllListens returns every
\* listen of the history, whatever its length.
C8_DefaultLimitReturnsAll ==
    stop # "" => count = remote.size

\* "<n><unit>": n a positive decimal integer (a "+" may lead it), unit one of m, h, d, y.
ValidFilter(s) ==
    /\ Len(s) >= 2
    /\ s[Len(s)] \in Units
    /\ LET from == IF s[1] = "+" THEN 2 ELSE 1
       IN  /\ from <= Len(s) - 1
           /\ \A i \in from..Len(s) - 1 : s[i] \in DecimalDigits
           /\ ParseInt(s, from, Len(s) - 1, 0) > 0

FilterAmount(s) == ParseInt(s, IF s[1] = "+" THEN 2 ELSE 1, Len(s) - 1, 0)

\* n units in seconds, exactly: m = 60 s, h = 3600 s, d = 86400 s, y = 31536000 s.
UnitSeconds(n, unit) ==
    LET a == BigFromNat(n)
    IN  CASE unit = "m" -> BigMulSmall(a, 60)
          [] unit = "h" -> BigMulSmall(a, 3600)
          [] unit = "d" -> BigMulSmall(BigMulSmall(a, 3600), 24)
          [] unit = "y" -> BigMulSmall(BigMulSmall(BigMulSmall(a, 3600), 24), 365)

\* C9: for a valid time filter parseTimeFilter succeeds with the cutoff at the
\* current time minus n units, never later than the current time; the empty
\* string gives cutoff 0 without error.
C9_CutoffIsNowMinusDuration ==
    pc # "main" =>
        /\ timeFilter = <<>> => pc = "getAllListens" /\ cutOffTime = SZero
        /\ ValidFilter(timeFilter) =>
             LET n    == FilterAmount(timeFilter)
                 unit == timeFilter[Len(timeFilter)]
                 now  == SFromInt(clock.sec)
             IN  /\ pc = "getAllListens"
                 /\ cutOffTime = SAdd(now, SNeg(SMake(FALSE, UnitSeconds(n, unit))))
                 /\ ~SLess(now, cutOffTime)

\* C10: parseTimeFilter fails on every non-empty input that is not a positive
\* integer followed by one unit character, and then the cutoff is 0.
C10_InvalidFilterFails ==
    (pc # "main" /\ timeFilter # <<>> /\ ~ValidFilter(timeFilter)) =>
        /\ pc = "exit"
        /\ exitCode = 2
        /\ help
        /\ cutOffTime = SZero

\* C11: when LISTENBRAINZ_TOKEN is absent and -h was not given, whatever the
\* other flags are, main reports the missing token and the process exits with
\* status 1 in its first step: no help text, no list request, no delete request.
C11_NoTokenExitsOne ==
    (token = "" /\ ~showUsage /\ pc # "main") =>
        /\ pc = "exit"
        /\ exitCode = 1
        /\ errmsg = "Error: please define LISTENBRAINZ_TOKEN."
        /\ ~help
        /\ requests = <<>>
        /\ deletes = <<>>
        /\ printed = <<>>

\* The token is absent in a run whose other flags are bad too (no user name, a
\* count below 1, a bad time filter, delete mode): status 1 all the same.
C11_Witness ==
    /\ token = ""
    /\ ~showUsage
    /\ pc = "exit"
    /\ exitCode = 1
    /\ userName = ""
    /\ maxCount < 1
    /\ timeFilter = <<"m">>
    /\ deleteListens

\* A usage error: no user name, a count below 1, or a time filter that is not a
\* positive integer followed by one unit character.
UsageError ==
    \/ userName = ""
    \/ maxCount < 1
    \/ timeFilter # <<>> /\ ~ValidFilter(timeFilter)

\* C12: on a usage error (the token being present) main prints the help text
\* and the process exits with status 2 before any network activity: the fetch
\* and filter phases are never entered, no request is sent, nothing is printed.
C12_UsageErrorExitsTwo ==
    (token # "" /\ UsageError /\ pc # "main") =>
        /\ pc = "exit"
        /\ exitCode = 2
        /\ help
        /\ stop = ""
        /\ requests = <<>>
        /\ deletes = <<>>
        /\ printed = <<>>

\* A stop condition occurs inside a page fetched when the result holds n listens:
\* one of its records is older than the cutoff, or the result reaches maxCount.
StopInPage(n, page) ==
    \/ Cutoff > 0 /\ \E i \in 1..Len(page) : page[i].ListenedAt < Cutoff
    \/ n + Len(page) >= maxCount

\* The records of such a page before the stop condition.
KeptOfPage(n, page) ==
    LET older == IF Cutoff > 0 THEN FirstOlder(page, Cutoff) ELSE Len(page) + 1
    IN  SubSeq(page, 1, Min(older - 1, maxCount - n))

\* C13: the fetch of a page in which a stop condition occurs (a record older
\* than the cutoff, the result reaching maxCount) is the last one: getAllListens
\* returns in that step with the records of the page before the stop condition
\* appended, and no list request is sent once it has returned, so the number of
\* fetches is the index of that page.
C13_NoFetchAfterStop ==
    [][/\ (/\ pc = "getAllListens"
           /\ Len(requests') = Len(requests) + 1
           /\ StopInPage(Len(listens), SubSeq(served', Len(served) + 1, Len(served'))))
          => (/\ stop' \in {"cutoff", "limit"}
              /\ pc' = "brainz"
              /\ listens' = listens \o
                     KeptOfPage(Len(listens), SubSeq(served', Len(served) + 1, Len(served'))))
       /\ (stop # "") => (requests' = requests)]_vars

\* The limit reached inside the second page, the rest of the page dropped: the
\* run ends after two fetches.
C13_Witness ==
    /\ stop = "limit"
    /\ pc = "exit"
    /\ Len(requests) = 2
    /\ Len(served) > Len(listens)

\* C14: the first list request of getAllListens carries no max_ts, and every
\* later one carries max_ts equal to the timestamp of the last record of the
\* page before it, whatever that timestamp is.
C14_CursorIsLastTimestamp ==
    [][(pc = "getAllListens" /\ Len(requests') = Len(requests) + 1) =>
          IF requests = <<>> THEN ~requests'[1].hasMaxTs
          ELSE /\ requests'[Len(requests')].hasMaxTs
               /\ requests'[Len(requests')].max_ts = served[Len(served)].ListenedAt]_vars

\* C15: every list request returning, getAllListens terminates whatever the
\* service answers, after at most maxCount list requests: an iteration that
\* does not return appends at least one record, and the result stays below
\* maxCount while the loop goes on.
C15_DriverTerminates ==
    /\ [](Len(requests) <= maxCount)
    /\ [](pc = "getAllListens" => Len(requests) <= Len(listens) /\ Len(listens) < maxCount)
    /\ [][(pc = "getAllListens" /\ pc' = "getAllListens") =>
              Len(listens') > Len(listens)]_vars
    /\ (pc = "getAllListens") ~> (pc \in {"brainz", "exit"})

\* A run of maxCount fetches, one record a page, maxCount being the largest.
C15_Witness ==
    /\ pc = "brainz"
    /\ stop = "limit"
    /\ maxCount = MaxCountBound
    /\ Len(requests) = maxCount
    /\ failed = 0

\* C16: against the service of SpecExclusive, with no cutoff and maxCount at
\* least the history's length, getAllListens returns no record twice and skips
\* none: once it has returned, the result is the whole history in order, also
\* when two adjacent records have the same timestamp.
C16_WholeHistoryOnce ==
    /\ NoRepeat(listens)
    /\ IsPrefix(listens, remote.history)
    /\ stop # "" => listens = remote.history

====
